---- MODULE Spec2Model ----
(***************************************************************************)
(* A model of the MRMS GRIB2 decoder of src/server/grib2Parser.js          *)
(* (parseMRMSGrib2 and the section decoders it calls, lines 312-700,       *)
(* hasValidData, lines 705-718) and of the validity gate and the sampling  *)
(* loop of parseGRIB2Data in src/server/mrmsService.js (lines 62-112).     *)
(*                                                                         *)
(* A buffer is a sequence of bytes (0..255).  JavaScript offsets are       *)
(* 0-based; TLA+ sequences are 1-based, so byte k of a buffer b is         *)
(* b[k + 1].  One call of parseMRMSGrib2 is run per behaviour, one action  *)
(* per statement group of the function, on a buffer chosen in Init.        *)
(*                                                                         *)
(* Four specifications share the variables:                                *)
(*   Spec        one call of parseGRIB2Data;                               *)
(*   SpecTwice   two calls, one after the other, on the same buffer;       *)
(*   SpecServer  one request of the /api/radar handler of                  *)
(*               src/server/index.js (lines 24-73);                        *)
(*   SpecApp     the calls of fetchRadarData of src/src/App.tsx            *)
(*               (lines 24-60, 135-138).                                   *)
(***************************************************************************)
EXTENDS Integers, Sequences, FiniteSets, TLC

VARIABLES
    buffer,        \* the input Buffer (never assigned by the parser)
    pc,            \* position inside parseMRMSGrib2
    error,         \* kind of the Error thrown out of parseMRMSGrib2, or "none"
    edition,       \* const edition    (line 324), -1 before it is read
    discipline,    \* const discipline (line 332), -1 before it is read
    offset,        \* let offset       (line 340)
    sections,      \* const sections   (line 341): section number -> record
    sectionCount,  \* let sectionCount (line 342)
    gridDef,       \* const gridDef    (line 385)
    dataRep,       \* const dataRep    (line 389)
    values,        \* const values     (line 393)
    result,        \* the object returned at line 396
    iterations,    \* history: number of times the loop body was entered
    scanned,       \* history: the sections recorded, in scan order
    stopReason,    \* history: why the while loop was left
    ran,           \* history: the stages that have been called
    pngImage,      \* const pngData   (line 568): what PNG.sync.read gave
    gate,          \* the value of hasValidData(parsed), mrmsService.js line 70
    points,        \* const sampledData, mrmsService.js line 88
    emitted,       \* history: the cells (i, j) whose sample was pushed
    calls,         \* the number of calls of parseGRIB2Data begun on buffer
    first,         \* << what the first call ended with >>, << >> before
    fetchError,    \* << message of the Error fetchLatestRALA threw >>, or << >>
    fallback,      \* how the call of generateDemoRadarData ended, or "none"
    response,      \* << the response the /api/radar handler sent >>, or << >>
    responses,     \* the number of responses sent for the request
    loading,       \* App.tsx line 26: const [loading, setLoading]
    radarData,     \* App.tsx line 25: const [radarData, setRadarData]
    errorText,     \* App.tsx line 27: const [error, setError]
    mounted,       \* whether the effect of App.tsx lines 53-60 has run
    fetches        \* call of fetchRadarData -> where it stands

vars == << buffer, pc, error, edition, discipline, offset, sections,
           sectionCount, gridDef, dataRep, values, result,
           iterations, scanned, stopReason, ran, pngImage, gate, points,
           emitted, calls, first, fetchError, fallback, response,
           responses, loading, radarData, errorText, mounted, fetches >>

\* the variables of the callers of parseGRIB2Data
callVars == << calls, first >>

\* the variables of the /api/radar handler of index.js
httpVars == << fetchError, fallback, response, responses >>

\* the variables of the App component of src/src/App.tsx
appVars == << loading, radarData, errorText, mounted, fetches >>

callerVars == << callVars, httpVars, appVars >>

\* the variables of parseGRIB2Data after the call of parseMRMSGrib2
sampleVars == << gate, points, emitted >>

NULL == "null"
NONE == "none"

\* the number of calls of fetchRadarData a behaviour follows
MaxFetches == 3

\* App.tsx lines 25-27: the state of the component when it is created, no
\* call of fetchRadarData made yet
AppInitial ==
    /\ loading = TRUE
    /\ radarData = NULL
    /\ errorText = NULL
    /\ mounted = FALSE
    /\ fetches = [ id \in 1..MaxFetches |-> "idle" ]

----------------------------------------------------------------------------
(* Arithmetic helpers *)

Min(a, b) == IF a < b THEN a ELSE b

RECURSIVE Pow(_, _)
Pow(b, e) == IF e <= 0 THEN 1 ELSE b * Pow(b, e - 1)

----------------------------------------------------------------------------
(* Node Buffer primitives *)

At(buf, off) == buf[off + 1]

\* buf.slice(start, end): both ends are clamped to the buffer
Slice(buf, start, end) ==
    SubSeq(buf, Min(start, Len(buf)) + 1, Min(end, Len(buf)))

\* a read of n bytes at off is in range (otherwise Node throws a RangeError)
InRange(buf, off, n) == off >= 0 /\ off + n <= Len(buf)

readUInt8(buf, off) == At(buf, off)

readUInt16BE(buf, off) == At(buf, off) * 256 + At(buf, off + 1)

readInt16BE(buf, off) ==
    LET u == readUInt16BE(buf, off)
    IN  IF u >= 32768 THEN u - 65536 ELSE u

\* (the buffers of the model keep every unsigned 32-bit field below 2^31)
readUInt32BE(buf, off) ==
    At(buf, off) * 16777216 + At(buf, off + 1) * 65536
        + At(buf, off + 2) * 256 + At(buf, off + 3)

readInt32BE(buf, off) ==
    (IF At(buf, off) >= 128 THEN At(buf, off) - 256 ELSE At(buf, off)) * 16777216
        + At(buf, off + 1) * 65536 + At(buf, off + 2) * 256 + At(buf, off + 3)

\* buf.toString('ascii', start, end): decoding clears the high bit of each byte
toStringAscii(buf, start, end) ==
    LET s == Slice(buf, start, end)
    IN  [i \in 1..Len(s) |-> s[i] % 128]

GRIB == << 71, 82, 73, 66 >>

----------------------------------------------------------------------------
(* Encoders used to build the input buffers (the inverse of the reads) *)

U32(n) == << (n \div 16777216) % 256, (n \div 65536) % 256,
             (n \div 256) % 256, n % 256 >>

I16(n) == << (n \div 256) % 256, n % 256 >>

Zeros(k) == [i \in 1..k |-> 0]

RECURSIVE Concat(_)
Concat(ss) == IF ss = << >> THEN << >> ELSE Head(ss) \o Concat(Tail(ss))

RECURSIVE Repeat(_, _)
Repeat(s, k) == IF k <= 0 THEN << >> ELSE s \o Repeat(s, k - 1)

\* Section 0 (indicator): magic, 2 reserved bytes, discipline, edition,
\* 8-byte message length
Header(magic, disc, ed) == magic \o << 0, 0, disc, ed >> \o Zeros(8)

\* Section 3 with the latitude/longitude template, 72 bytes
GridSection(count, nx, ny, la1, lo1, la2, lo2, dx, dy) ==
    U32(72) \o << 3, 0 >> \o U32(count) \o << 0, 0, 0, 0 >> \o Zeros(16)
        \o U32(nx) \o U32(ny) \o U32(0) \o U32(0)
        \o U32(la1) \o U32(lo1) \o << 48 >>
        \o U32(la2) \o U32(lo2) \o U32(dx) \o U32(dy) \o << 0 >>

\* the first len bytes of a grid section, declaring length len
ShortGrid(len) ==
    U32(len) \o SubSeq(GridSection(4, 2, 2, 1, 1, 1, 1, 1, 1), 5, len)

\* Section 5, 21 bytes: template, reference value (4 IEEE bytes), binary and
\* decimal scale, bit width
RepSection(template, ref, E, D, bits) ==
    U32(21) \o << 5 >> \o U32(4) \o I16(template) \o ref \o I16(E) \o I16(D)
        \o << bits, 0 >>

ShortRep(len, template) ==
    U32(len) \o SubSeq(RepSection(template, Zeros(4), 0, 1, 16), 5, len)

\* Section 7: 5-byte sub-header, then the packed bytes
DataSection(bytes) == U32(5 + Len(bytes)) \o << 7 >> \o bytes

\* Section 4 truncated to len bytes; category at byte 9, number at byte 10
ProductSection(len, cat, num) ==
    U32(len) \o SubSeq(<< 4, 0, 0, 0, 0, cat, num >>, 1, len - 4)

\* a 5-byte section holding only its length and number
Bare(num) == U32(5) \o << num >>

----------------------------------------------------------------------------
(* The input buffers of the model *)

\* grid dimensions nx, ny range over 0..MaxDim
MaxDim == 2

\* the longest run of 5-byte filler sections put before the mandatory ones
MaxFill == 21

Magics == { GRIB,
            << 65, 66, 67, 68 >>,      \* "ABCD"
            << 103, 82, 73, 66 >>,     \* "gRIB"
            << 71, 82, 73, 194 >>,     \* 'G' 'R' 'I' and 'B' + 128
            << 199, 210, 201, 194 >> } \* every byte of "GRIB" + 128

\* IEEE 754 singles: 0, -20, 0.5, 99.5, NaN, +Infinity
Floats == { << 0, 0, 0, 0 >>, << 193, 160, 0, 0 >>, << 63, 0, 0, 0 >>,
            << 66, 199, 0, 0 >>, << 127, 192, 0, 0 >>, << 127, 128, 0, 0 >> }

GoodHeader == Header(GRIB, 0, 2)

GoodGrid == GridSection(4, 2, 2, 40000000, -100000000, 39900000, -99900000,
                        100000, 100000)

\* a second grid section, 1 x 2, that differs from GoodGrid
AltGrid == GridSection(2, 1, 2, 30000000, 200000000, 29000000, 201000000,
                       1000000, 1000000)

GoodRep == RepSection(0, << 0, 0, 0, 0 >>, 0, 1, 16)

AltRep == RepSection(0, << 0, 0, 0, 0 >>, 0, 1, 8)

\* the 16-bit values 300, 0, 500, 65535
GoodData == DataSection(<< 1, 44, 0, 0, 1, 244, 255, 255 >>)

AltData == DataSection(<< 0, 200, 0, 100 >>)

\* the bytes 255, 255, 0, 60, ...: the 16-bit values 65535, 60, 65480, 0
SentinelData == DataSection(<< 255, 255, 0, 60, 255, 200, 0, 0 >>)

\* the 4-byte end marker "7777" of a GRIB2 message
Trailer == << 55, 55, 55, 55 >>

ZeroLength == U32(0) \o << 1 >>

PastEnd == U32(4000) \o << 2 >>

GoodBody == GoodGrid \o GoodRep \o GoodData \o Trailer

\* packed bytes: raw 16-bit values 300, 0, 500, 65535, 7, 1200, ...
RawBytes(k) ==
    SubSeq(<< 1, 44, 0, 0, 1, 244, 255, 255, 0, 7, 4, 176, 3, 232, 0, 50,
              255, 254, 0, 1, 2, 3 >>, 1, k)

HeaderBuffers ==
    { Header(m, d, e) \o GoodBody : m \in Magics, d \in {0, 209}, e \in 0..3 }
      \cup { SubSeq(GoodHeader \o GoodBody, 1, k) :
               k \in 0..Len(GoodHeader \o GoodBody) }
      \cup { SubSeq(Header(<< 65, 66, 67, 68 >>, 0, 2), 1, k) : k \in 0..8 }

PrePool ==
    { << >>, Bare(1), Bare(8), ZeroLength, PastEnd, AltGrid,
      ProductSection(11, 1, 2), ProductSection(10, 1, 2), ProductSection(9, 1, 2) }
      \cup { Repeat(Bare(1), k) : k \in (MaxFill - 4)..MaxFill }

PostPool ==
    { << >>, Trailer, Bare(8) \o AltGrid, ZeroLength \o AltGrid, PastEnd,
      AltGrid, AltRep, AltData, Bare(1), << 0 >>, << 0, 0, 0, 9, 3 >>,
      Bare(8) \o Bare(8) \o Trailer, AltGrid \o AltData \o Bare(8) }

ScanBuffers ==
    { GoodHeader \o pre \o g \o r \o d \o post :
        pre \in PrePool, g \in { << >>, GoodGrid }, r \in { << >>, GoodRep },
        d \in { << >>, GoodData }, post \in PostPool }

GridPool ==
    { GridSection(nx * ny + c, nx, ny, geo[1], geo[2], geo[3], geo[4], geo[5], geo[6]) :
        nx \in 0..MaxDim, ny \in 0..MaxDim, c \in {0, 1},
        geo \in { << 40000000, -100000000, 39900000, -99900000, 100000, 100000 >>,
                  << 54500000, 233000000, 20000000, 300000000, 10000, 10000 >> } }
      \cup { ShortGrid(len) : len \in 5..71 }

DataPool == { DataSection(RawBytes(k)) : k \in 0..(2 * MaxDim * MaxDim + 2) }

GridBuffers ==
    { GoodHeader \o g \o r \o d \o Trailer :
        g \in GridPool, r \in { GoodRep, AltRep }, d \in DataPool }

RepPool ==
    { RepSection(t, f, E, D, b) :
        t \in {0, 40, 41}, f \in Floats, E \in {-1, 0, 1}, D \in {-1, 0, 1, 3},
        b \in {8, 12, 16} }
      \cup { ShortRep(len, t) : len \in 5..20, t \in {0, 40, 41} }

RepBuffers ==
    { GoodHeader \o GoodGrid \o r \o d \o Trailer :
        r \in RepPool,
        d \in { GoodData, AltData, SentinelData, DataSection(RawBytes(5)),
                DataSection(<< >>) } }

\* Messages for the validity gate: grids of 100 and of 1000 points, 8-bit
\* values, k bytes of raw 60 (6.0) followed by one raw 0, then nothing
GateCounts == {0, 1, 2, 9, 10, 11, 50}

GateBuffers ==
    { GoodHeader
        \o GridSection(nx * 10, nx, 10, 40000000, 260000000, 39000000,
                       270000000, 100000, 100000)
        \o RepSection(0, << 0, 0, 0, 0 >>, 0, 1, 8)
        \o DataSection(Repeat(<< 60 >>, k) \o << 0 >>) \o Trailer :
        nx \in {10, 100}, k \in GateCounts }

\* Messages for the sampler: 8-bit values under reference -40 (C2 20 00 00),
\* decimal scale 0 and binary scale E, so that raw r is r * 2^E - 40; the
\* payload repeats the pattern below from position rot and holds
\* nx * ny - cut bytes
SamplePattern == << 60, 10, 11, 5, 0, 255, 141, 20, 21, 19 >>

SampleBytes(n, rot) ==
    [ k \in 1..n |-> SamplePattern[((k - 1 + rot) % Len(SamplePattern)) + 1] ]

SamplerBuffers ==
    { GoodHeader
        \o GridSection(nx * ny, nx, ny, 40000000, lo1, 39000000,
                       lo1 + 1000000, 250000, 100000)
        \o RepSection(0, << 194, 32, 0, 0 >>, E, 0, 8)
        \o DataSection(SampleBytes(nx * ny - cut, rot)) \o Trailer :
        nx \in {1, 4, 5, 9}, ny \in {1, 4, 5, 9},
        lo1 \in {-100000000, 179000000}, E \in {-1, 0},
        cut \in {0, 1}, rot \in 0..(Len(SamplePattern) - 1) }

Buffers ==
    HeaderBuffers \cup ScanBuffers \cup GridBuffers \cup RepBuffers
      \cup GateBuffers \cup SamplerBuffers

\* the images PNG.sync.read may return: w x h pixels, the first two
\* channels of pixel i holding the i-th raw value of a pattern
PngPixels(n, pat) ==
    Concat([ i \in 1..n |->
               LET raw == pat[((i - 1) % Len(pat)) + 1]
               IN  << raw \div 256, raw % 256, 0, 255 >> ])

PngOutcomes ==
    { [ ok |-> FALSE, width |-> 0, height |-> 0, data |-> << >> ] }
      \cup { [ ok |-> TRUE, width |-> w, height |-> h, data |-> PngPixels(w * h, pat) ] :
               w \in 1..MaxDim, h \in 1..MaxDim,
               pat \in { << 300, 0, 500, 65535 >>, << 1200, 7 >> } }

----------------------------------------------------------------------------
(* parseMRMSGrib2: header checks and the section scan *)

\* the safety limit of the while loop
MaxSections == 20

NoSections == [n \in {} |-> NULL]

Has(secs, n) == n \in DOMAIN secs

\* throw: the catch block at the end of parseMRMSGrib2 rethrows the error
Throw(kind) ==
    /\ pc' = "failed"
    /\ error' = kind

\* the header test of lines 318-319: header === 'GRIB'
HeaderValid(buf) == toStringAscii(buf, 0, 4) = GRIB

\* a variant that accepts every edition from 2 on
EditionSupported_AtLeast2(ed) == ed >= 2

\* the edition test of line 327
EditionSupported(ed) == ed = 2

\* lines 318-321
VerifyHeader ==
    /\ pc = "start"
    /\ IF ~HeaderValid(buffer)
         THEN Throw("FormatError")
         ELSE pc' = "edition" /\ error' = error
    /\ UNCHANGED << callerVars, pngImage, sampleVars, buffer, edition, discipline, offset, sections, sectionCount,
                    gridDef, dataRep, values, result,
                    iterations, scanned, stopReason, ran >>

\* lines 324-329
ReadEdition ==
    /\ pc = "edition"
    /\ IF ~InRange(buffer, 7, 1)
         THEN Throw("RangeError") /\ edition' = edition
         ELSE /\ edition' = readUInt8(buffer, 7)
              /\ IF ~EditionSupported(edition')
                   THEN Throw("UnsupportedEdition")
                   ELSE pc' = "indicator" /\ error' = error
    /\ UNCHANGED << callerVars, pngImage, sampleVars, buffer, discipline, offset, sections, sectionCount,
                    gridDef, dataRep, values, result,
                    iterations, scanned, stopReason, ran >>

\* lines 332-342: discipline, message length (8 bytes at offset 8), and the
\* initial values of the scan
ReadIndicator ==
    /\ pc = "indicator"
    /\ IF ~InRange(buffer, 8, 8)
         THEN /\ Throw("RangeError")
              /\ UNCHANGED << offset, sections, sectionCount >>
         ELSE /\ pc' = "scan"
              /\ error' = error
              /\ offset' = 16
              /\ sections' = NoSections
              /\ sectionCount' = 0
    /\ discipline' = readUInt8(buffer, 6)
    /\ UNCHANGED << callerVars, pngImage, sampleVars, buffer, edition, gridDef, dataRep, values, result,
                    iterations, scanned, stopReason, ran >>

\* a variant without the safety limit
ScanCondition_NoCap == offset < Len(buffer) - 4

\* the condition of the while loop, line 344
ScanCondition == offset < Len(buffer) - 4 /\ sectionCount < MaxSections

\* a variant that compares the length with the whole buffer only
InvalidLength_WholeBuffer(len) == len = 0 \/ len > Len(buffer)

\* a variant without the test for a zero length
InvalidLength_NoZeroTest(len) ==
    len > Len(buffer) \/ offset + len > Len(buffer)

\* the test of line 350
InvalidLength(len) ==
    len = 0 \/ len > Len(buffer) \/ offset + len > Len(buffer)

\* a variant that fails the whole decode on an invalid section length
ScanBreak_Throws(sectionLength) ==
    /\ Throw("InvalidSectionLength")
    /\ stopReason' = IF sectionLength = 0 THEN "zeroLength" ELSE "pastEnd"
    /\ UNCHANGED << offset, sections, sectionCount, scanned >>

\* the break of lines 350-353: the loop is left, nothing is thrown
ScanBreak(sectionLength) ==
    /\ pc' = "check"
    /\ error' = error
    /\ stopReason' = IF sectionLength = 0 THEN "zeroLength" ELSE "pastEnd"
    /\ UNCHANGED << offset, sections, sectionCount, scanned >>

\* a variant that keeps the first occurrence of a section number
Record_KeepFirst(secs, sectionNumber, rec) ==
    [ n \in DOMAIN secs \cup {sectionNumber} |->
        IF n \in DOMAIN secs THEN secs[n] ELSE rec ]

\* sections[sectionNumber] = { offset, length, data }, lines 355-359
Record(secs, sectionNumber, rec) ==
    [ n \in DOMAIN secs \cup {sectionNumber} |->
        IF n = sectionNumber THEN rec ELSE secs[n] ]

\* one iteration of the loop body, lines 345-368
ScanSection ==
    /\ pc = "scan"
    /\ ScanCondition
    /\ iterations' = iterations + 1
    /\ LET sectionLength == readUInt32BE(buffer, offset)
           sectionNumber == readUInt8(buffer, offset + 4)
           rec == [ offset |-> offset,
                    length |-> sectionLength,
                    data   |-> Slice(buffer, offset, offset + sectionLength) ]
       IN  IF InvalidLength(sectionLength)
             THEN ScanBreak(sectionLength)
             ELSE /\ sections' = Record(sections, sectionNumber, rec)
                  /\ error' = error
                  /\ offset' = offset + sectionLength
                  /\ sectionCount' = sectionCount + 1
                  /\ scanned' = Append(scanned, [ number |-> sectionNumber,
                                                  offset |-> offset,
                                                  length |-> sectionLength ])
                  /\ IF sectionNumber = 8
                       THEN pc' = "check" /\ stopReason' = "endSection"
                       ELSE pc' = "scan" /\ stopReason' = stopReason
    /\ UNCHANGED << callerVars, pngImage, sampleVars, buffer, edition, discipline,
                    gridDef, dataRep, values, result, ran >>

\* the loop condition is false: the loop is left
ScanExit ==
    /\ pc = "scan"
    /\ ~ScanCondition
    /\ pc' = "check"
    /\ stopReason' = IF sectionCount >= MaxSections /\ offset < Len(buffer) - 4
                       THEN "cap" ELSE "exhausted"
    /\ UNCHANGED << callerVars, pngImage, sampleVars, buffer, error, edition, discipline, offset, sections,
                    sectionCount, gridDef, dataRep, values, result,
                    iterations, scanned, ran >>

\* a variant that forgets the representation section
MandatoryMissing_NoRep(secs) == ~Has(secs, 3) \/ ~Has(secs, 7)

\* the three tests of lines 374-382
MandatoryMissing(secs) == ~Has(secs, 3) \/ ~Has(secs, 5) \/ ~Has(secs, 7)

\* lines 374-382
CheckSections ==
    /\ pc = "check"
    /\ IF MandatoryMissing(sections)
         THEN Throw("MissingSection")
         ELSE pc' = "grid" /\ error' = error
    /\ UNCHANGED << callerVars, pngImage, sampleVars, buffer, edition, discipline, offset, sections, sectionCount,
                    gridDef, dataRep, values, result,
                    iterations, scanned, stopReason, ran >>

----------------------------------------------------------------------------
(* Grid Definition Decoder *)

\* the CONUS defaults returned by the catch block of parseLatLonGrid
DefaultGrid ==
    [ nx |-> 7000, ny |-> 3500, la1 |-> 54500000, lo1 |-> -127000000,
      la2 |-> 20000000, lo2 |-> -60000000, dx |-> 10000, dy |-> 10000 ]

\* parseLatLonGrid: a section shorter than 72 bytes throws inside the try
\* block and the catch block returns the defaults
parseLatLonGrid(section) ==
    IF Len(section) < 72
      THEN DefaultGrid
      ELSE [ nx  |-> readUInt32BE(section, 30),
             ny  |-> readUInt32BE(section, 34),
             la1 |-> readInt32BE(section, 46),
             lo1 |-> readInt32BE(section, 50),
             la2 |-> readInt32BE(section, 55),
             lo2 |-> readInt32BE(section, 59),
             dx  |-> readInt32BE(section, 63),
             dy  |-> readInt32BE(section, 67) ]

\* parseGridDefinitionSection throws when the section is shorter than 14
\* bytes; this throw is outside every try block of the decoder
GridSectionInvalid(section) == Len(section) < 14

\* parseGridDefinitionSection: every template number is parsed as lat/lon
parseGridDefinitionSection(section) == parseLatLonGrid(section)

\* line 385
ParseGrid ==
    /\ pc = "grid"
    /\ ran' = ran \cup {"grid"}
    /\ IF GridSectionInvalid(sections[3].data)
         THEN Throw("InvalidGridSection") /\ gridDef' = gridDef
         ELSE /\ gridDef' = parseGridDefinitionSection(sections[3].data)
              /\ pc' = "rep"
              /\ error' = error
    /\ UNCHANGED << callerVars, pngImage, sampleVars, buffer, edition, discipline, offset, sections, sectionCount,
                    dataRep, values, result, iterations, scanned, stopReason >>

----------------------------------------------------------------------------
(* Data Representation Decoder *)

\* the placeholder kept in the field of a property that is undefined
NoFloat == [ kind |-> "undefined", num |-> 0, den |-> 1 ]

RECURSIVE StripTwos(_, _)
\* m * 2^x with m odd (or zero), as the pair << m, x >>
StripTwos(m, x) ==
    IF m # 0 /\ m % 2 = 0 THEN StripTwos(m \div 2, x + 1) ELSE << m, x >>

\* buf.readFloatBE(off): the IEEE 754 single at off, as an exact fraction
\* num / den (den a power of two), or an infinity, or NaN
readFloatBE(buf, off) ==
    LET b0 == At(buf, off)
        b1 == At(buf, off + 1)
        sign == IF b0 >= 128 THEN -1 ELSE 1
        e == (b0 % 128) * 2 + (b1 \div 128)
        m == (b1 % 128) * 65536 + At(buf, off + 2) * 256 + At(buf, off + 3)
        mx == IF e = 0 THEN StripTwos(m, -149) ELSE StripTwos(8388608 + m, e - 150)
    IN  IF e = 255
          THEN IF m = 0 THEN [ kind |-> "inf", num |-> sign, den |-> 1 ]
                        ELSE [ kind |-> "nan", num |-> 0, den |-> 1 ]
          ELSE IF mx[1] = 0
                 THEN [ kind |-> "num", num |-> 0, den |-> 1 ]
                 ELSE IF mx[2] >= 0
                        THEN [ kind |-> "num", num |-> sign * mx[1] * Pow(2, mx[2]),
                               den |-> 1 ]
                        ELSE [ kind |-> "num", num |-> sign * mx[1],
                               den |-> Pow(2, -mx[2]) ]

\* the reads of the template 0 / 41 branch need bytes 11..19 of the section
RepSectionOutOfRange(section) ==
    /\ Len(section) >= 11
    /\ readUInt16BE(section, 9) \in {0, 41}
    /\ Len(section) < 20

\* The returned object: `defined` holds the names of the properties the
\* object literal has; a property not in it reads as undefined
parseDataRepresentationSection(section) ==
    IF Len(section) < 11
      THEN [ template |-> 0, referenceValue |-> NoFloat,
             binaryScaleFactor |-> 0, decimalScaleFactor |-> 0,
             bitsPerValue |-> 16,
             defined |-> { "template", "binaryScaleFactor",
                           "decimalScaleFactor", "bitsPerValue" } ]
      ELSE LET template == readUInt16BE(section, 9)
           IN  IF template = 0 \/ template = 41
                 THEN [ template |-> template,
                        referenceValue |-> readFloatBE(section, 11),
                        binaryScaleFactor |-> readInt16BE(section, 15),
                        decimalScaleFactor |-> readInt16BE(section, 17),
                        bitsPerValue |-> readUInt8(section, 19),
                        defined |-> { "template", "referenceValue",
                                      "binaryScaleFactor", "decimalScaleFactor",
                                      "bitsPerValue" } ]
                 ELSE [ template |-> template, referenceValue |-> NoFloat,
                        binaryScaleFactor |-> 0, decimalScaleFactor |-> 0,
                        bitsPerValue |-> 16,
                        defined |-> { "template", "bitsPerValue" } ]

\* line 389
ParseRep ==
    /\ pc = "rep"
    /\ ran' = ran \cup {"rep"}
    /\ IF RepSectionOutOfRange(sections[5].data)
         THEN Throw("RangeError") /\ dataRep' = dataRep
         ELSE /\ dataRep' = parseDataRepresentationSection(sections[5].data)
              /\ pc' = "data"
              /\ error' = error
    /\ UNCHANGED << callerVars, pngImage, sampleVars, buffer, edition, discipline, offset, sections, sectionCount,
                    gridDef, values, result, iterations, scanned, stopReason >>

----------------------------------------------------------------------------
(* Value Decoder *)

\* A value array of `length` slots is kept as its length and the slots the
\* decoding loop has visited (head); every slot after head holds the null
\* that new Array(totalPoints).fill(null) put there.  A slot is Missing
\* (null) or Present(t), where t is the integer 10 * v of its value v
\* (values are rounded to one decimal).
Missing == << >>

Present(t) == << t >>

EmptyArray == [ length |-> 0, head |-> << >> ]

SlotAt(vals, i) == IF i < Len(vals.head) THEN vals.head[i + 1] ELSE Missing

\* dataRep.referenceValue || 0: undefined, NaN and 0 give 0
RefOrZero(rep) ==
    IF "referenceValue" \notin rep.defined \/ rep.referenceValue.kind = "nan"
      THEN [ kind |-> "num", num |-> 0, den |-> 1 ]
      ELSE rep.referenceValue

\* dataRep.binaryScaleFactor || 0 and dataRep.decimalScaleFactor || 0
BinaryScaleOrZero(rep) ==
    IF "binaryScaleFactor" \in rep.defined THEN rep.binaryScaleFactor ELSE 0

DecimalScaleOrZero(rep) ==
    IF "decimalScaleFactor" \in rep.defined THEN rep.decimalScaleFactor ELSE 0

\* the scaling of one raw value, lines 629-643 (and 586-600, 657-670):
\* scaledValue = (referenceValue + rawValue * 2^E) / 10^D, kept when it lies
\* in [-50, 100] and then rounded to one decimal by Math.round(x * 10) / 10
ScaleValue(rawValue, rep) ==
    LET ref == RefOrZero(rep)
        E  == BinaryScaleOrZero(rep)
        D  == DecimalScaleOrZero(rep)
        bn == Pow(2, E)
        bd == Pow(2, -E)
        dn == Pow(10, D)
        dd == Pow(10, -D)
        \* scaledValue = N / Q, Q > 0
        N  == (ref.num * bd + rawValue * bn * ref.den) * dd
        Q  == ref.den * bd * dn
    IN  IF ref.kind = "inf"
          THEN Missing
          ELSE IF N >= -50 * Q /\ N <= 100 * Q
                 THEN Present((20 * N + Q) \div (2 * Q))
                 ELSE Missing

\* one slot: the sentinel test of lines 625, 654 and 582, then the scaling
DecodeRaw_OnlyAllOnes(rawValue, allOnes, rep) ==
    IF rawValue = allOnes THEN Missing ELSE ScaleValue(rawValue, rep)

DecodeRaw(rawValue, allOnes, rep) ==
    IF rawValue = 0 \/ rawValue = allOnes THEN Missing
                                          ELSE ScaleValue(rawValue, rep)

\* the outcome of PNG.sync.read(dataBuffer): the decoder of pngjs is not
\* part of the repository, so its result is an input of the model: it
\* throws, or it returns width, height and RGBA bytes (4 per pixel)
PngFailed == [ ok |-> FALSE, width |-> 0, height |-> 0, data |-> << >> ]

\* PNG.sync.read has not been called
NotDecoded == [ ok |-> FALSE, width |-> -1, height |-> -1, data |-> << >> ]

\* section.length < 6: parseDataSection returns [] before anything else
DataSectionTooShort(section) == Len(section) < 6

\* the error parseDataSection throws, or NONE
DataSectionError(rep, png) ==
    IF rep.template = 41
      THEN IF png.ok THEN NONE ELSE "CompressedPayloadError"
      ELSE IF rep.template = 0
             THEN IF rep.bitsPerValue \in {8, 16} THEN NONE
                                                  ELSE "UnsupportedPacking"
             ELSE "UnsupportedPacking"

\* line 579: (data[pixelIndex] << 8) | data[pixelIndex + 1]
PngRaw_RedOnly(data, pixelIndex) == At(data, pixelIndex)

PngRaw(data, pixelIndex) ==
    At(data, pixelIndex) * 256 + At(data, pixelIndex + 1)

\* lines 618 and 648: the number of slots the simple-packing loops visit
MaxPoints_HalfAlways(totalPoints, dataLength, bits) ==
    Min(totalPoints, dataLength \div 2)

MaxPoints(totalPoints, dataLength, bits) ==
    Min(totalPoints, IF bits = 16 THEN dataLength \div 2 ELSE dataLength)

\* the value array parseDataSection returns when it does not throw
parseDataSection(section, rep, grid, png) ==
    IF DataSectionTooShort(section)
      THEN EmptyArray
      ELSE
        LET dataBuffer  == Slice(section, 5, Len(section))
            totalPoints == grid.nx * grid.ny
        IN  IF rep.template = 41
              THEN LET maxPoints == Min(totalPoints, png.width * png.height)
                   IN  [ length |-> totalPoints,
                         head |-> [ k \in 1..maxPoints |->
                           LET pixelIndex == (k - 1) * 4
                           IN  IF pixelIndex + 1 < Len(png.data)
                                 THEN DecodeRaw(PngRaw(png.data, pixelIndex),
                                                65535, rep)
                                 ELSE Missing ] ]
              ELSE IF rep.bitsPerValue = 16
                THEN LET maxPoints == MaxPoints(totalPoints, Len(dataBuffer), 16)
                     IN  [ length |-> totalPoints,
                           head |-> [ k \in 1..maxPoints |->
                             DecodeRaw(readUInt16BE(dataBuffer, (k - 1) * 2),
                                       65535, rep) ] ]
                ELSE LET maxPoints == MaxPoints(totalPoints, Len(dataBuffer), 8)
                     IN  [ length |-> totalPoints,
                           head |-> [ k \in 1..maxPoints |->
                             DecodeRaw(readUInt8(dataBuffer, k - 1), 255, rep) ] ]

\* what PNG.sync.read may give for the payload: it is a function of the
\* bytes, so a later call on the same buffer is given what an earlier call
\* was given (pngImage)
PngChoices ==
    IF dataRep.template = 41 /\ ~DataSectionTooShort(sections[7].data)
      THEN IF pngImage # NotDecoded THEN {pngImage} ELSE PngOutcomes
      ELSE {NotDecoded}

\* line 393; the PNG decoder is consulted only under template 41
ParseData ==
    /\ pc = "data"
    /\ ran' = ran \cup {"data"}
    /\ \E png \in PngChoices :
         LET err == IF DataSectionTooShort(sections[7].data)
                      THEN NONE ELSE DataSectionError(dataRep, png)
         IN  IF err # NONE
               THEN Throw(err) /\ values' = values /\ pngImage' = png
               ELSE /\ values' = parseDataSection(sections[7].data, dataRep,
                                                  gridDef, png)
                    /\ pngImage' = png
                    /\ pc' = "result"
                    /\ error' = error
    /\ UNCHANGED << callerVars, sampleVars, buffer, edition, discipline, offset, sections, sectionCount,
                    gridDef, dataRep, result, iterations, scanned, stopReason >>

\* sections[4].data.readUInt8(9) and readUInt8(10) of lines 400-401 throw a
\* RangeError when section 4 is shorter than 11 bytes
ProductOutOfRange(secs) == Has(secs, 4) /\ ~InRange(secs[4].data, 10, 1)

\* lines 396-402
BuildResult ==
    /\ pc = "result"
    /\ IF ProductOutOfRange(sections)
         THEN Throw("RangeError") /\ result' = result
         ELSE /\ result' =
                   [ discipline |-> discipline,
                     gridDefinition |-> gridDef,
                     values |-> values,
                     parameterCategory |->
                       IF Has(sections, 4) THEN readUInt8(sections[4].data, 9) ELSE 0,
                     parameterNumber |->
                       IF Has(sections, 4) THEN readUInt8(sections[4].data, 10) ELSE 0 ]
              /\ pc' = "done"
              /\ error' = error
    /\ UNCHANGED << callerVars, pngImage, sampleVars, buffer, edition, discipline, offset, sections, sectionCount,
                    gridDef, dataRep, values, iterations, scanned, stopReason, ran >>

----------------------------------------------------------------------------
(* parseGRIB2Data of mrmsService.js: the validity gate and the sampler *)

\* values.filter(v => v !== null && v !== undefined).length
ValidCount(vals) ==
    Cardinality({ k \in 1..Len(vals.head) : vals.head[k] # Missing })

\* hasValidData(parsedData); given: parsedData is an object, hasValues: it
\* has a values array, vals: that array.  (validCount / length) * 100 > 1
\* is computed in floating point, where it is exact for these counts:
\* it is true exactly when 100 * validCount > length
hasValidData_AtLeast(given, hasValues, vals) ==
    /\ given
    /\ hasValues
    /\ vals.length # 0
    /\ 100 * ValidCount(vals) >= vals.length

hasValidData(given, hasValues, vals) ==
    /\ given
    /\ hasValues
    /\ vals.length # 0
    /\ 100 * ValidCount(vals) > vals.length

\* mrmsService.js lines 66-72: parseMRMSGrib2 has returned `result`
Gate_NoThrow ==
    /\ pc = "done"
    /\ ran' = ran \cup {"gate"}
    /\ gate' = IF hasValidData(TRUE, TRUE, result.values)
                 THEN "accepted" ELSE "rejected"
    /\ pc' = "sample"
    /\ UNCHANGED << callerVars, pngImage, points, emitted, error, buffer, edition, discipline,
                    offset, sections, sectionCount, gridDef, dataRep, values,
                    result, iterations, scanned, stopReason >>

Gate ==
    /\ pc = "done"
    /\ ran' = ran \cup {"gate"}
    /\ IF hasValidData(TRUE, TRUE, result.values)
         THEN /\ gate' = "accepted"
              /\ pc' = "sample"
              /\ error' = error
         ELSE /\ gate' = "rejected"
              /\ Throw("InsufficientData")
    /\ UNCHANGED << callerVars, pngImage, points, emitted, buffer, edition, discipline, offset,
                    sections, sectionCount, gridDef, dataRep, values, result,
                    iterations, scanned, stopReason >>

\* const sampleRate = 4
SampleRate == 4

\* the number of values i = 0, sampleRate, 2 * sampleRate, ... below n
Steps(n) == (n + SampleRate - 1) \div SampleRate

\* the cells << i, j >> in the order the two loops of lines 90-91 visit them
VisitedCells_EveryCell(nx, ny) ==
    [ k \in 1..(ny * nx) |-> << (k - 1) \div nx, (k - 1) % nx >> ]

VisitedCells(nx, ny) ==
    [ k \in 1..(Steps(ny) * Steps(nx)) |->
        << SampleRate * ((k - 1) \div Steps(nx)),
           SampleRate * ((k - 1) % Steps(nx)) >> ]

\* value !== null && value !== undefined && value > -30 (value in tenths)
KeepValue_AtLeast(slot) == slot # Missing /\ slot[1] >= -300

KeepValue(slot) == slot # Missing /\ slot[1] > -300

\* the cells whose sample is pushed
SampledCells(vals, nx, ny) ==
    SelectSeq(VisitedCells(nx, ny),
              LAMBDA c : KeepValue(SlotAt(vals, c[1] * nx + c[2])))

\* lines 97-109: latitude and longitude in micro-degrees (la1 / 1e6 -
\* (i * dy) / 1e6 and lo1 / 1e6 + (j * dx) / 1e6, 360 taken off a longitude
\* above 180), the value in tenths
\* lines 101-103: if (lon > 180) lon = lon - 360, in micro-degrees
NormalizeLon_AtLeast(lon) ==
    IF lon >= 180000000 THEN lon - 360000000 ELSE lon

NormalizeLon(lon) == IF lon > 180000000 THEN lon - 360000000 ELSE lon

SamplePoint_LatAdds(vals, grid, i, j) ==
    LET lon == grid.lo1 + j * grid.dx
    IN  [ lat   |-> grid.la1 + i * grid.dy,
          lon   |-> NormalizeLon(lon),
          value |-> SlotAt(vals, i * grid.nx + j)[1] ]

SamplePoint(vals, grid, i, j) ==
    LET lon == grid.lo1 + j * grid.dx
    IN  [ lat   |-> grid.la1 - i * grid.dy,
          lon   |-> NormalizeLon(lon),
          value |-> SlotAt(vals, i * grid.nx + j)[1] ]

\* a variant whose sampledData is shared by all calls instead of being
\* created by each call
Sample_SharedArray ==
    /\ pc = "sample"
    /\ ran' = ran \cup {"sampler"}
    /\ LET grid  == result.gridDefinition
           cells == SampledCells(result.values, grid.nx, grid.ny)
           kept  == IF first = << >> THEN << >> ELSE first[1].points
       IN  /\ emitted' = cells
           /\ points' = kept \o [ k \in 1..Len(cells) |->
                            SamplePoint(result.values, grid,
                                        cells[k][1], cells[k][2]) ]
    /\ pc' = "returned"
    /\ UNCHANGED << callerVars, pngImage, gate, error, buffer, edition,
                    discipline, offset, sections, sectionCount, gridDef,
                    dataRep, values, result, iterations, scanned, stopReason >>

\* a variant that nulls the slots it drops in the array it was given
Sample_FiltersInPlace ==
    /\ pc = "sample"
    /\ ran' = ran \cup {"sampler"}
    /\ LET grid  == result.gridDefinition
           cells == SampledCells(result.values, grid.nx, grid.ny)
       IN  /\ emitted' = cells
           /\ points' = [ k \in 1..Len(cells) |->
                            SamplePoint(result.values, grid,
                                        cells[k][1], cells[k][2]) ]
    /\ result' = [ result EXCEPT !.values.head =
                     [ k \in 1..Len(result.values.head) |->
                         IF KeepValue(result.values.head[k])
                           THEN result.values.head[k] ELSE Missing ] ]
    /\ pc' = "returned"
    /\ UNCHANGED << callerVars, pngImage, gate, error, buffer, edition,
                    discipline, offset, sections, sectionCount, gridDef,
                    dataRep, values, iterations, scanned, stopReason >>

\* mrmsService.js lines 76-112: the two sampling loops, run to their end
Sample ==
    /\ pc = "sample"
    /\ ran' = ran \cup {"sampler"}
    /\ LET grid  == result.gridDefinition
           cells == SampledCells(result.values, grid.nx, grid.ny)
       IN  /\ emitted' = cells
           /\ points' = [ k \in 1..Len(cells) |->
                            SamplePoint(result.values, grid,
                                        cells[k][1], cells[k][2]) ]
    /\ pc' = "returned"
    /\ UNCHANGED << callerVars, pngImage, gate, error, buffer, edition, discipline, offset,
                    sections, sectionCount, gridDef, dataRep, values, result,
                    iterations, scanned, stopReason >>

\* the object parseMRMSGrib2 returned to parseGRIB2Data, if it returned
ResultReturned == IF gate # NONE THEN << result >> ELSE << >>

\* what a call of parseGRIB2Data ended with: it returned or threw, the
\* error, the decoded object and the samples
Outcome ==
    [ pc |-> pc, error |-> error, result |-> ResultReturned, points |-> points ]

\* index.js line 28 on a later request: parseGRIB2Data is called again on
\* the same bytes; every local of the earlier call is gone
CallAgain ==
    /\ pc \in {"returned", "failed"}
    /\ calls = 1
    /\ calls' = 2
    /\ first' = << Outcome >>
    /\ pc' = "start"
    /\ error' = NONE
    /\ edition' = -1
    /\ discipline' = -1
    /\ offset' = 0
    /\ sections' = NoSections
    /\ sectionCount' = 0
    /\ gridDef' = NULL
    /\ dataRep' = NULL
    /\ values' = NULL
    /\ result' = NULL
    /\ iterations' = 0
    /\ scanned' = << >>
    /\ stopReason' = NONE
    /\ ran' = {}
    /\ gate' = NONE
    /\ points' = << >>
    /\ emitted' = << >>
    /\ UNCHANGED << buffer, pngImage, httpVars, appVars >>

----------------------------------------------------------------------------
(* The specification: one call of parseGRIB2Data on a buffer of Buffers *)

Init ==
    /\ buffer \in Buffers
    /\ pc = "start"
    /\ error = NONE
    /\ edition = -1
    /\ discipline = -1
    /\ offset = 0
    /\ sections = NoSections
    /\ sectionCount = 0
    /\ gridDef = NULL
    /\ dataRep = NULL
    /\ values = NULL
    /\ result = NULL
    /\ iterations = 0
    /\ scanned = << >>
    /\ stopReason = NONE
    /\ ran = {}
    /\ pngImage = NotDecoded
    /\ gate = NONE
    /\ points = << >>
    /\ emitted = << >>
    /\ calls = 1
    /\ first = << >>
    /\ fetchError = << >>
    /\ fallback = NONE
    /\ response = << >>
    /\ responses = 0
    /\ AppInitial

Next ==
    \/ VerifyHeader
    \/ ReadEdition
    \/ ReadIndicator
    \/ ScanSection
    \/ ScanExit
    \/ CheckSections
    \/ ParseGrid
    \/ ParseRep
    \/ ParseData
    \/ BuildResult
    \/ Gate
    \/ Sample

Spec == Init /\ [][Next]_vars

\* two calls of parseGRIB2Data, one after the other, on the same buffer
NextTwice ==
    \/ Next
    \/ CallAgain

SpecTwice == Init /\ [][NextTwice]_vars

----------------------------------------------------------------------------
(* The /api/radar handler of src/server/index.js, lines 24-73: one request, *)
(* from the call of fetchLatestRALA to the response.                        *)

\* An error message is a sequence of words; String.prototype.includes
\* (index.js lines 41-42) is the test for a run of consecutive words
Includes(message, part) ==
    \E k \in 0..(Len(message) - Len(part)) :
        \A n \in 1..Len(part) : message[k + n] = part[n]

\* The messages of the errors fetchLatestRALA lets through (mrmsService.js
\* lines 51-54): its own (line 27), those of fetchUrl (line 348, whose
\* second part is the reason phrase the remote server sent, and line 361)
\* and those of gunzip (line 43)
FetchErrors ==
    { << "No", "GRIB2", "files", "found" >>,
      << "HTTP", "404:", "Not", "Found" >>,
      << "HTTP", "503:", "GRIB2", "parsing", "backlog" >>,
      << "connect", "ECONNREFUSED" >>,
      << "incorrect", "header", "check" >> }

\* mrmsService.js line 147: every error caught in parseGRIB2Data is thrown
\* again as `GRIB2 parsing failed: ${errorType}`
DecodeMessage(kind) == << "GRIB2", "parsing", "failed:", kind >>

\* mrmsService.js lines 156-235: generateDemoRadarData has no throw
\* statement and calls only Date, Math and toFixed with constant digits; the
\* list it returns depends on the time of the call
DemoOutcomes ==
    { [ end |-> "returned",
        points |-> << [ lat |-> 36000000, lon |-> -97500000, value |-> 550 ] >> ],
      [ end |-> "returned",
        points |-> << [ lat |-> 36000000, lon |-> -97500000, value |-> 550 ],
                      [ lat |-> 32500000, lon |-> -97000000, value |-> 400 ] >> ] }

\* index.js lines 30-33, 52-57, 60-64 and 68-71: the four bodies the
\* handler can send
RadarResponse(status, warning, dataSource, pts) ==
    [ status |-> status, warning |-> warning, dataSource |-> dataSource,
      points |-> pts ]

\* index.js line 27: await fetchLatestRALA(); the buffer it resolves to is
\* the one chosen in the initial state
FetchLatestRALA ==
    /\ pc = "request"
    /\ \/ /\ pc' = "start"
          /\ fetchError' = fetchError
       \/ \E m \in FetchErrors :
              /\ pc' = "fetchFailed"
              /\ fetchError' = << m >>
    /\ UNCHANGED << callVars, appVars, fallback, response, responses,
                    sampleVars,
                    pngImage, error, buffer, edition, discipline, offset,
                    sections, sectionCount, gridDef, dataRep, values, result,
                    iterations, scanned, stopReason, ran >>

\* index.js lines 30-33 (parseGRIB2Data returned) and 34-72 (the catch
\* block, entered from line 27 or from line 28)
Respond ==
    /\ pc \in {"returned", "failed", "fetchFailed"}
    /\ pc' = "responded"
    /\ responses' = responses + 1
    /\ IF pc = "returned"
       THEN /\ response' = << RadarResponse(200, FALSE, "MRMS", points) >>
            /\ fallback' = fallback
       ELSE LET message == IF pc = "failed" THEN DecodeMessage(error)
                                            ELSE fetchError[1]
            IN  IF \/ Includes(message, << "PNG", "compression" >>)
                   \/ Includes(message, << "GRIB2", "parsing" >>)
                THEN \E demo \in DemoOutcomes :
                        /\ fallback' = demo.end
                        /\ response' =
                             IF demo.end = "returned"
                             THEN << RadarResponse(200, TRUE, "Simulated",
                                                   demo.points) >>
                             ELSE << RadarResponse(500, FALSE, NONE, << >>) >>
                ELSE /\ fallback' = fallback
                     /\ response' = << RadarResponse(500, FALSE, NONE, << >>) >>
    /\ UNCHANGED << callVars, appVars, fetchError, sampleVars, pngImage,
                    error, buffer,
                    edition, discipline, offset, sections, sectionCount,
                    gridDef, dataRep, values, result, iterations, scanned,
                    stopReason, ran >>

InitServer ==
    /\ buffer \in Buffers
    /\ pc = "request"
    /\ error = NONE
    /\ edition = -1
    /\ discipline = -1
    /\ offset = 0
    /\ sections = NoSections
    /\ sectionCount = 0
    /\ gridDef = NULL
    /\ dataRep = NULL
    /\ values = NULL
    /\ result = NULL
    /\ iterations = 0
    /\ scanned = << >>
    /\ stopReason = NONE
    /\ ran = {}
    /\ pngImage = NotDecoded
    /\ gate = NONE
    /\ points = << >>
    /\ emitted = << >>
    /\ calls = 1
    /\ first = << >>
    /\ fetchError = << >>
    /\ fallback = NONE
    /\ response = << >>
    /\ responses = 0
    /\ AppInitial

NextServer ==
    \/ FetchLatestRALA
    \/ Next
    \/ Respond

SpecServer == InitServer /\ [][NextServer]_vars

----------------------------------------------------------------------------
(* The App component of src/src/App.tsx, lines 24-60 and 135-138: the       *)
(* calls of fetchRadarData made by the effect, by the interval timer and by *)
(* the refresh button, and their completions.  The server is the            *)
(* environment of the component: what it answers is the outcome of          *)
(* FetchSettles and JsonSettles.                                            *)

\* the variables of the server, which no step of the component changes
serverVars == << buffer, pc, error, edition, discipline, offset, sections,
                 sectionCount, gridDef, dataRep, values, result, iterations,
                 scanned, stopReason, ran, pngImage, sampleVars, callVars,
                 httpVars >>

\* the calls of fetchRadarData that have begun and have not reached the
\* finally block of line 48
InFlight == { id \in 1..MaxFetches : fetches[id] \in {"fetch", "json"} }

\* App.tsx lines 30-34: fetchRadarData up to the await of fetch; the call
\* takes the next unused number
BeginFetch(id) ==
    /\ fetches[id] = "idle"
    /\ \A k \in 1..(id - 1) : fetches[k] # "idle"
    /\ loading' = TRUE
    /\ errorText' = NULL
    /\ fetches' = [ fetches EXCEPT ![id] = "fetch" ]
    /\ radarData' = radarData

\* App.tsx lines 53-54: the effect runs once, after the first render
Mount ==
    /\ ~mounted
    /\ mounted' = TRUE
    /\ \E id \in 1..MaxFetches : BeginFetch(id)
    /\ UNCHANGED serverVars

\* App.tsx line 57: setInterval(fetchRadarData, 5 * 60 * 1000); the timer
\* does not look at loading
TimerFires ==
    /\ mounted
    /\ \E id \in 1..MaxFetches : BeginFetch(id)
    /\ UNCHANGED << mounted, serverVars >>

\* App.tsx lines 135-137: onClick={fetchRadarData} disabled={loading}
Click ==
    /\ mounted
    /\ ~loading
    /\ \E id \in 1..MaxFetches : BeginFetch(id)
    /\ UNCHANGED << mounted, serverVars >>

\* App.tsx lines 34-38 and 43-50: the promise of fetch settles; a rejection
\* or a response that is not ok goes through catch and finally
FetchSettles ==
    \E id \in 1..MaxFetches :
        /\ fetches[id] = "fetch"
        /\ \E outcome \in {"ok", "HTTP 500: Internal Server Error",
                           "Failed to fetch"} :
              IF outcome = "ok"
              THEN /\ fetches' = [ fetches EXCEPT ![id] = "json" ]
                   /\ UNCHANGED << loading, errorText >>
              ELSE /\ fetches' = [ fetches EXCEPT ![id] = "done" ]
                   /\ errorText' = outcome
                   /\ loading' = FALSE
        /\ UNCHANGED << radarData, mounted, serverVars >>

\* App.tsx lines 40-42 and 43-50: the promise of response.json() settles
JsonSettles ==
    \E id \in 1..MaxFetches :
        /\ fetches[id] = "json"
        /\ fetches' = [ fetches EXCEPT ![id] = "done" ]
        /\ \E parsed \in BOOLEAN :
              IF parsed
              THEN /\ radarData' = "data"
                   /\ errorText' = errorText
              ELSE /\ radarData' = radarData
                   /\ errorText' = "Unexpected end of JSON input"
        /\ loading' = FALSE
        /\ UNCHANGED << mounted, serverVars >>

InitApp ==
    /\ buffer = << >>
    /\ pc = "request"
    /\ error = NONE
    /\ edition = -1
    /\ discipline = -1
    /\ offset = 0
    /\ sections = NoSections
    /\ sectionCount = 0
    /\ gridDef = NULL
    /\ dataRep = NULL
    /\ values = NULL
    /\ result = NULL
    /\ iterations = 0
    /\ scanned = << >>
    /\ stopReason = NONE
    /\ ran = {}
    /\ pngImage = NotDecoded
    /\ gate = NONE
    /\ points = << >>
    /\ emitted = << >>
    /\ calls = 1
    /\ first = << >>
    /\ fetchError = << >>
    /\ fallback = NONE
    /\ response = << >>
    /\ responses = 0
    /\ AppInitial

NextApp ==
    \/ Mount
    \/ TimerFires
    \/ Click
    \/ FetchSettles
    \/ JsonSettles

SpecApp == InitApp /\ [][NextApp]_vars

----------------------------------------------------------------------------
(* Properties.  They are stated on the buffer and on the history variables  *)
(* iterations, scanned, stopReason and ran, not on the parser's own tests.  *)

\* section number n was recorded by the scan
Recorded(n) == \E k \in 1..Len(scanned) : scanned[k].number = n

\* the scan has ended
ScanEnded == stopReason # NONE

\* C1: every buffer whose first four bytes are not "GRIB" fails with a
\* format error before the edition is read and before any loop iteration.
C1_BadMagicFails ==
    (Slice(buffer, 0, 4) # GRIB /\ pc # "start")
        => /\ pc = "failed"
           /\ error = "FormatError"
           /\ edition = -1
           /\ iterations = 0
           /\ scanned = << >>

\* C2: a buffer that passes the header test and whose byte 7 is not 2 fails
\* with an unsupported-edition error with no loop iteration and no section
\* recorded; when the scan starts, the edition is 2 and the cursor is 16.
C2_EditionCheck ==
    /\ (HeaderValid(buffer) /\ InRange(buffer, 7, 1) /\ At(buffer, 7) # 2
          /\ pc \notin {"start", "edition"})
         => /\ pc = "failed"
            /\ error = "UnsupportedEdition"
            /\ iterations = 0
            /\ scanned = << >>
            /\ sections = NoSections
            /\ ran = {}
    /\ (pc = "scan" /\ iterations = 0) => (At(buffer, 7) = 2 /\ offset = 16)
    /\ scanned # << >> => (At(buffer, 7) = 2 /\ scanned[1].offset = 16)

C2_Witness ==
    /\ pc = "failed"
    /\ error = "UnsupportedEdition"
    /\ Slice(buffer, 0, 4) = GRIB
    /\ At(buffer, 7) = 3

\* C3: once the scan has ended and the check of the mandatory sections is
\* done, a missing section 3, 5 or 7 means the call has failed with a
\* missing-section error and no decoder has run; when all three were
\* recorded there is no missing-section error.
C3_MissingSection ==
    /\ (ScanEnded /\ pc # "check" /\ ~(Recorded(3) /\ Recorded(5) /\ Recorded(7)))
         => (pc = "failed" /\ error = "MissingSection" /\ ran = {})
    /\ (Recorded(3) /\ Recorded(5) /\ Recorded(7)) => error # "MissingSection"

C3_Witness ==
    /\ error = "MissingSection"
    /\ Recorded(3)
    /\ Recorded(7)
    /\ ~Recorded(5)

\* the stop conditions of the scan, read from the buffer at the cursor
SawTerminal == scanned # << >> /\ scanned[Len(scanned)].number = 8

ZeroDeclared == offset < Len(buffer) - 4 /\ readUInt32BE(buffer, offset) = 0

PastEndDeclared ==
    offset < Len(buffer) - 4 /\ offset + readUInt32BE(buffer, offset) > Len(buffer)

CapReached == Len(scanned) >= 20

Exhausted == offset >= Len(buffer) - 4

\* what C4 says apart from the list of stop conditions: at most 20 loop
\* iterations and 20 recorded sections, and only the last recorded section
\* can be a section 8
ScanBounded ==
    /\ iterations <= 20
    /\ Len(scanned) <= 20
    /\ sectionCount = Len(scanned)
    /\ \A k \in 1..(Len(scanned) - 1) : scanned[k].number # 8
    /\ pc = "scan" => ~SawTerminal

\* C4 as stated: the scan is bounded and it ends only on a section 8, a
\* zero length, a length past the buffer end, or the iteration cap.
C4_StopsOnFourConditions ==
    /\ ScanBounded
    /\ ScanEnded => (SawTerminal \/ ZeroDeclared \/ PastEndDeclared \/ CapReached)

\* C4 amended: the scan also ends when fewer than five bytes remain at the
\* cursor.
C4_StopsOnFiveConditions ==
    /\ ScanBounded
    /\ ScanEnded => (SawTerminal \/ ZeroDeclared \/ PastEndDeclared \/ CapReached
                       \/ Exhausted)

C4_Witness ==
    /\ pc = "failed"
    /\ Len(scanned) = 20
    /\ ~SawTerminal
    /\ offset < Len(buffer) - 4
    /\ readUInt32BE(buffer, offset) = 5

\* C5: every recorded section lies inside the buffer, its payload is the
\* declared number of bytes starting at its offset, and after each recorded
\* section the cursor is that section's offset plus its declared length.
C5_ExactPayload ==
    /\ \A n \in DOMAIN sections :
         /\ sections[n].length = readUInt32BE(buffer, sections[n].offset)
         /\ sections[n].offset + sections[n].length <= Len(buffer)
         /\ Len(sections[n].data) = sections[n].length
         /\ sections[n].data = SubSeq(buffer, sections[n].offset + 1,
                                      sections[n].offset + sections[n].length)
    /\ \A k \in 1..Len(scanned) :
         /\ scanned[k].length = readUInt32BE(buffer, scanned[k].offset)
         /\ scanned[k].offset + scanned[k].length
              = IF k < Len(scanned) THEN scanned[k + 1].offset ELSE offset

C5_Witness ==
    /\ pc = "done"
    /\ Len(scanned) >= 4
    /\ \E n \in DOMAIN sections : sections[n].length = 72

\* the last scanned occurrence of section number n, and its bytes
LastIndex(n) ==
    CHOOSE k \in 1..Len(scanned) :
        /\ scanned[k].number = n
        /\ \A j \in (k + 1)..Len(scanned) : scanned[j].number # n

LastPayload(n) ==
    SubSeq(buffer, scanned[LastIndex(n)].offset + 1,
           scanned[LastIndex(n)].offset + scanned[LastIndex(n)].length)

\* C6: when the loop is left because of a zero length or a length past the
\* buffer end, no error is raised by the scan (any error of the call is the
\* missing-section error or comes from a decoder), every section recorded
\* before it is still in the table with its bytes, and if sections 3, 5 and
\* 7 were recorded the decoders are called.
C6_EarlyStopIsNotAnError ==
    stopReason \in {"zeroLength", "pastEnd"} =>
        /\ ZeroDeclared \/ PastEndDeclared
        /\ pc = "check" => error = NONE
        /\ error # NONE => (error = "MissingSection" \/ "grid" \in ran)
        /\ \A k \in 1..Len(scanned) :
             /\ Has(sections, scanned[k].number)
             /\ sections[scanned[k].number].data = LastPayload(scanned[k].number)
        /\ (Recorded(3) /\ Recorded(5) /\ Recorded(7) /\ pc # "check")
             => (pc = "grid" \/ "grid" \in ran)

C6_Witness ==
    /\ pc = "done"
    /\ stopReason = "zeroLength"
    /\ Len(scanned) = 3

\* C7: the section table holds exactly the scanned section numbers, each
\* mapped to its last scanned occurrence (offset, length, bytes), and the
\* decoders are applied to the last occurrences of sections 3, 5 and 7.
C7_LastOccurrence ==
    /\ DOMAIN sections = { scanned[k].number : k \in 1..Len(scanned) }
    /\ \A n \in DOMAIN sections :
         /\ sections[n].offset = scanned[LastIndex(n)].offset
         /\ sections[n].length = scanned[LastIndex(n)].length
         /\ sections[n].data = LastPayload(n)
    /\ pc \in {"rep", "data", "result", "done"}
         => gridDef = parseGridDefinitionSection(LastPayload(3))
    /\ pc \in {"data", "result", "done"}
         => dataRep = parseDataRepresentationSection(LastPayload(5))
    /\ (pc \in {"result", "done"} /\ dataRep.template # 41)
         => values = parseDataSection(LastPayload(7), dataRep, gridDef, PngFailed)

C7_Witness ==
    /\ pc = "done"
    /\ \E j \in 1..Len(scanned) : \E k \in (j + 1)..Len(scanned) :
         /\ scanned[j].number = 3
         /\ scanned[k].number = 3
         /\ scanned[j].length = 72
         /\ scanned[k].length = 72
    /\ gridDef.nx = 1

\* C8: a grid section shorter than 72 bytes gives the default geometry and
\* no error.
C8_ShortGridGivesDefault ==
    ("grid" \in ran /\ Len(sections[3].data) < 72)
        => (error # "InvalidGridSection" /\ gridDef = DefaultGrid)

\* C9: when parseMRMSGrib2 returns, the value array has nx * ny slots.
C9_ValueCount ==
    pc = "done" =>
        result.values.length = result.gridDefinition.nx * result.gridDefinition.ny

\* C10: the decoded geometry has nx * ny equal to the data-point count at
\* bytes 6-9 of section 3.
C10_DeclaredCount ==
    pc \in {"rep", "data", "result", "done"}
        => gridDef.nx * gridDef.ny = readUInt32BE(sections[3].data, 6)

\* the template id at bytes 9-10 of the recorded section 5
TemplateBytes == readUInt16BE(sections[5].data, 9)

ScaleFields == { "referenceValue", "binaryScaleFactor", "decimalScaleFactor" }

\* C11: when section 5 holds a template id other than 0 and 41, the
\* representation decoder returns bit width 16 with no reference and no
\* scale fields, and the value decoder fails with an unsupported-packing
\* error, so that no value array is produced.
C11_OtherTemplateFails ==
    ("data" \in ran /\ Len(sections[5].data) >= 11 /\ TemplateBytes \notin {0, 41})
        => /\ dataRep.bitsPerValue = 16
           /\ dataRep.defined \cap ScaleFields = {}
           /\ pc = "failed"
           /\ error = "UnsupportedPacking"

\* C12: once the value decoder has run with a bit width other than 8 and
\* 16, the call has failed with an unsupported-packing error, whatever the
\* template (41 included).
C12_BadWidthFails ==
    ("data" \in ran /\ dataRep.bitsPerValue \notin {8, 16})
        => (pc = "failed" /\ error = "UnsupportedPacking")

\* parseDataSection has returned: values holds the array it built
ValuesDecoded ==
    /\ "data" \in ran
    /\ ~(pc = "failed" /\ error \in {"UnsupportedPacking", "CompressedPayloadError"})

\* the decoding path taken: "png", "16" or "8"
DecodePath ==
    IF dataRep.template = 41 THEN "png"
    ELSE IF dataRep.bitsPerValue = 16 THEN "16" ELSE "8"

\* the raw integer of slot i (from 0), read from the bytes of section 7
\* after the 5-byte sub-header, or from the first two channels of pixel i
RawOfSlot(i) ==
    IF DecodePath = "png"
      THEN pngImage.data[4 * i + 1] * 256 + pngImage.data[4 * i + 2]
      ELSE IF DecodePath = "16"
             THEN sections[7].data[5 + 2 * i + 1] * 256
                    + sections[7].data[5 + 2 * i + 2]
             ELSE sections[7].data[5 + i + 1]

\* the all-ones raw value of the path: 65535, or 255 on the 8-bit path
AllOnes == IF DecodePath = "8" THEN 255 ELSE 65535

\* C13: on the 16-bit, the 8-bit and the image-channel path, a slot whose
\* raw integer is 0 or all ones (65535, 255) is missing, whatever the
\* reference value and the scale factors.
C13_SentinelsMissing ==
    ValuesDecoded =>
        \A k \in 1..Len(values.head) :
            (RawOfSlot(k - 1) = 0 \/ RawOfSlot(k - 1) = AllOnes)
                => values.head[k] = Missing

\* a zero and an all-ones raw value were decoded under a reference and
\* scales that put both scaled values inside [-50, 100]
C13_Witness ==
    /\ ValuesDecoded
    /\ \E k \in 1..Len(values.head) :
          /\ RawOfSlot(k - 1) = 0
          /\ ScaleValue(0, dataRep) # Missing
    /\ \E k \in 1..Len(values.head) :
          /\ RawOfSlot(k - 1) = AllOnes
          /\ ScaleValue(AllOnes, dataRep) # Missing

\* the reference value the representation record holds; a record without
\* the field (the default record of a short section 5) counts as 0
ReferenceOf(rep) ==
    IF "referenceValue" \in rep.defined
      THEN rep.referenceValue
      ELSE [ kind |-> "num", num |-> 0, den |-> 1 ]

\* slot agrees with x = (reference + raw * 2^E) / 10^D: it is present,
\* inside [-50, 100] and within 0.05 of x when x lies in [-50, 100], and
\* missing otherwise (x = N / Q with Q > 0; a NaN or infinite x lies in no
\* interval)
AgreesWithFormula(slot, raw, rep) ==
    LET ref == ReferenceOf(rep)
        E   == BinaryScaleOrZero(rep)
        D   == DecimalScaleOrZero(rep)
        N   == (ref.num * Pow(2, -E) + raw * Pow(2, E) * ref.den) * Pow(10, -D)
        Q   == ref.den * Pow(2, -E) * Pow(10, D)
    IN  IF ref.kind = "num" /\ N >= -50 * Q /\ N <= 100 * Q
          THEN /\ slot # Missing
               /\ slot[1] >= -500 /\ slot[1] <= 1000
               /\ 2 * slot[1] * Q - 20 * N <= Q
               /\ 20 * N - 2 * slot[1] * Q <= Q
          ELSE slot = Missing

\* C14: under simple packing every slot decoded from a raw value X other
\* than 0 and all ones holds (reference + X * 2^E) / 10^D rounded to one
\* decimal when that value lies in [-50, 100], and is missing otherwise.
C14_SimplePackingFormula ==
    (ValuesDecoded /\ dataRep.template = 0) =>
        \A k \in 1..Len(values.head) :
            (RawOfSlot(k - 1) # 0 /\ RawOfSlot(k - 1) # AllOnes)
                => AgreesWithFormula(values.head[k], RawOfSlot(k - 1), dataRep)

\* what the 16-bit simple-packing path stores for the two bytes hi, lo
\* under the reference and scales of rep
SimplePath16(hi, lo, rep) ==
    parseDataSection(DataSection(<< hi, lo >>),
                     [ rep EXCEPT !.template = 0, !.bitsPerValue = 16 ],
                     [ nx |-> 1, ny |-> 1 ], NotDecoded).head[1]

PayloadNotAnImage ==
    \/ Len(sections[7].data) <= 5
    \/ pngImage = PngFailed

\* C16: under template 41 a payload that does not decode as an image ends
\* the call with the compressed-payload error, so that no array is returned.
C16_PngFailurePropagates ==
    ("data" \in ran /\ dataRep.template = 41 /\ PayloadNotAnImage)
        => (pc = "failed" /\ error = "CompressedPayloadError")

\* len: the number of bytes of section 7 after the 5-byte sub-header
PayloadLength == Len(sections[7].data) - 5

\* the number of whole raw values the payload holds
SlotsHeld ==
    IF dataRep.bitsPerValue = 16 THEN PayloadLength \div 2 ELSE PayloadLength

\* the payload holds fewer raw values than the grid has points
Truncated == SlotsHeld < gridDef.nx * gridDef.ny

PresentSlots == Len(SelectSeq(result.values.head, LAMBDA v : v # Missing))

StageOrder == << "grid", "rep", "data", "gate", "sampler" >>

\* C19: the stages run in the order scan, grid and representation
\* decoders, value decoder, gate, sampler; the sampler runs and emits only
\* after the gate accepted; when the gate rejects, no sample is emitted and
\* the call ends with an error.
C19_StageOrder ==
    /\ ran # {} => ScanEnded
    /\ \A k \in 2..Len(StageOrder) :
          StageOrder[k] \in ran => StageOrder[k - 1] \in ran
    /\ ("sampler" \in ran \/ points # << >> \/ emitted # << >>)
          => gate = "accepted"
    /\ gate = "rejected"
          => /\ pc = "failed"
             /\ error = "InsufficientData"
             /\ "sampler" \notin ran
             /\ points = << >>

\* a call went through every stage and returned samples
C19_Witness ==
    /\ pc = "returned"
    /\ ran = { StageOrder[k] : k \in 1..Len(StageOrder) }
    /\ gate = "accepted"
    /\ Len(points) >= 2

\* the grid and the array the sampler reads
SampledGrid == result.gridDefinition

\* the cells (row, col) the sampler must emit: both multiples of the
\* stride, inside the grid, slot row * nx + col present and above -30
QualifyingCells ==
    { c \in (0..(SampledGrid.ny - 1)) \X (0..(SampledGrid.nx - 1)) :
        /\ c[1] % 4 = 0
        /\ c[2] % 4 = 0
        /\ SlotAt(result.values, c[1] * SampledGrid.nx + c[2]) # Missing
        /\ SlotAt(result.values, c[1] * SampledGrid.nx + c[2])[1] > -300 }

\* cell a comes before cell b in row-major order
RowMajorBefore(a, b) == a[1] < b[1] \/ (a[1] = b[1] /\ a[2] < b[2])

RawLongitude(col) == SampledGrid.lo1 + col * SampledGrid.dx

\* C21: the sample emitted for cell (row, col) carries latitude
\* (la1 - row * dy) / 1e6, a longitude that is (lo1 + col * dx) / 1e6 before
\* normalization (so that value, or that value less 360, after it), and the
\* value of slot row * nx + col (coordinates in micro-degrees, values in
\* tenths).
C21_SampleCoordinates ==
    pc = "returned" =>
        \A k \in 1..Len(points) :
            LET row == emitted[k][1]
                col == emitted[k][2]
            IN  /\ points[k].lat = SampledGrid.la1 - row * SampledGrid.dy
                /\ points[k].lon \in { RawLongitude(col),
                                        RawLongitude(col) - 360000000 }
                /\ << points[k].value >>
                     = result.values.head[row * SampledGrid.nx + col + 1]

\* a sample was emitted for a cell off the first row and the first column
C21_Witness ==
    /\ pc = "returned"
    /\ \E k \in 1..Len(points) :
          /\ emitted[k][1] > 0
          /\ emitted[k][2] > 0
          /\ points[k].value # 0

\* C22: every emitted longitude lies in [-180, 180), and a computed
\* longitude of 180 or more is emitted shifted by exactly -360.
C22_LongitudeNormalized ==
    pc = "returned" =>
        \A k \in 1..Len(points) :
            /\ points[k].lon >= -180000000
            /\ points[k].lon < 180000000
            /\ RawLongitude(emitted[k][2]) >= 180000000
                  => points[k].lon = RawLongitude(emitted[k][2]) - 360000000

\* C22 as the code has it: a computed longitude strictly above 180 is
\* emitted shifted by exactly -360 and any other is emitted unchanged, so
\* that a computed longitude in (-180, 540] is emitted in (-180, 180].
C22_LongitudeShift ==
    pc = "returned" =>
        \A k \in 1..Len(points) :
            LET raw == RawLongitude(emitted[k][2])
            IN  /\ raw > 180000000 => points[k].lon = raw - 360000000
                /\ raw <= 180000000 => points[k].lon = raw
                /\ (raw > -180000000 /\ raw <= 540000000)
                      => (points[k].lon > -180000000 /\ points[k].lon <= 180000000)

\* one sample was emitted at a computed longitude of exactly 180 and
\* another at a computed longitude above 180
C22_Witness ==
    /\ pc = "returned"
    /\ \E k \in 1..Len(points) : RawLongitude(emitted[k][2]) = 180000000
    /\ \E k \in 1..Len(points) : RawLongitude(emitted[k][2]) > 180000000

\* the message of the end-to-end scenario: "GRIB", edition 2, the 2 x 2
\* grid at (40, -100) with increments of 0.1 degree, simple packing with
\* reference 0, scales 0 and 1, 16 bits, and the values 300, 0, 500, 65535
ScenarioBuffer == GoodHeader \o GoodGrid \o GoodRep \o GoodData \o Trailer

\* C24 as stated: the scenario message returns two samples, 30.0 at
\* (40.0, -100.0) and 50.0 at (39.9, -100.0).
C24_TwoSamples ==
    (buffer = ScenarioBuffer /\ pc = "returned")
        => /\ Len(points) = 2
           /\ points[1] = [ lat |-> 40000000, lon |-> -100000000, value |-> 300 ]
           /\ points[2] = [ lat |-> 39900000, lon |-> -100000000, value |-> 500 ]

\* C24 as the code has it: the scenario message never fails, decodes to
\* [30.0, missing, 50.0, missing], passes the gate, and the sampler, whose
\* stride is 4, returns the single sample 30.0 at (40.0, -100.0).
C24_EndToEnd ==
    buffer = ScenarioBuffer =>
        /\ pc # "failed"
        /\ ValuesDecoded =>
              /\ values.length = 4
              /\ values.head = << Present(300), Missing, Present(500), Missing >>
        /\ gate # "rejected"
        /\ pc = "returned" =>
              /\ gate = "accepted"
              /\ points = << [ lat |-> 40000000, lon |-> -100000000,
                               value |-> 300 ] >>

\* the scenario message went through the gate and the sampler
C24_Witness ==
    /\ buffer = ScenarioBuffer
    /\ pc = "returned"
    /\ gate = "accepted"

\* C27: the representation decoder returns packing parameters for a section
\* 5 of every length: once it has been called the call has not failed in
\* it, and a section shorter than 11 bytes gave the default record.
C27_RepDecoderNeverRaises ==
    "rep" \in ran =>
        /\ (pc = "failed" => "data" \in ran)
        /\ (pc # "failed" /\ Len(sections[5].data) < 11)
              => /\ dataRep.template = 0
                 /\ dataRep.binaryScaleFactor = 0
                 /\ dataRep.decimalScaleFactor = 0
                 /\ dataRep.bitsPerValue = 16

\* the offsets and declared lengths of the first k scanned sections
RECURSIVE SumLengths(_)
SumLengths(k) == IF k = 0 THEN 0 ELSE scanned[k].length + SumLengths(k - 1)

\* C29: the k-th scanned section starts at 16 plus the declared lengths of
\* the sections scanned before it and has a positive length, so the scanned
\* sections are contiguous, the cursor strictly increases, stands after the
\* last scanned section and never exceeds the buffer length.
C29_CursorMonotonic ==
    pc # "start" /\ pc # "edition" /\ pc # "indicator" /\ iterations > 0 =>
        /\ \A k \in 1..Len(scanned) :
             /\ scanned[k].offset = 16 + SumLengths(k - 1)
             /\ scanned[k].length > 0
             /\ scanned[k].offset + scanned[k].length <= Len(buffer)
        /\ offset = 16 + SumLengths(Len(scanned))
        /\ offset <= Len(buffer)

\* the scan recorded at least three sections and stopped before the end of
\* the buffer
C29_Witness ==
    /\ ScanEnded
    /\ Len(scanned) >= 3
    /\ offset < Len(buffer)
    /\ offset > 16

C26_Immutable ==
    /\ [][ /\ buffer' = buffer
           /\ pc \in {"done", "sample"}
                => (result' = result /\ values' = values /\ gridDef' = gridDef)
         ]_vars
    /\ []( (calls = 2 /\ pc \in {"returned", "failed"})
             => /\ first[1].pc = pc
                /\ first[1].error = error
                /\ first[1].result = ResultReturned )

\* a second call went through the gate and the sampler, which left present
\* slots out of the samples
C26_Witness ==
    /\ calls = 2
    /\ pc = "returned"
    /\ PresentSlots > Len(points)
    /\ Len(points) >= 1

----------------------------------------------------------------------------
(* The request handler *)

\* C25: a request whose decode failed, by an error of parseMRMSGrib2 or by
\* the rejection of the validity gate, is answered with the simulated data
\* and the warning; and a response without the warning never carries an
\* empty list of points.
C25_FailureGetsFallback ==
    pc = "responded" =>
        /\ error # NONE =>
              /\ response[1].status = 200
              /\ response[1].warning
              /\ response[1].dataSource = "Simulated"
        /\ (response[1].status = 200 /\ ~response[1].warning) =>
              response[1].points # << >>

\* C28: a request is answered once, by the stage that failed: an error of
\* fetchLatestRALA gives status 500 and never the simulated data; an error
\* of parseGRIB2Data always reaches generateDemoRadarData, and gives status
\* 500 only if that call threw.
C28_ResponseByStage ==
    /\ responses <= 1
    /\ pc = "responded" =>
          /\ responses = 1
          /\ fetchError # << >> =>
                (response[1].status = 500 /\ fallback = NONE)
          /\ error # NONE => fallback # NONE
          /\ (error # NONE /\ response[1].status = 500) => fallback = "threw"

----------------------------------------------------------------------------
(* The loading flag of the App component *)

\* C30: whenever at least one call of fetchRadarData is in flight the
\* loading flag is true; so it is false only in states where no call is in
\* flight.
C30_LoadingWhileInFlight ==
    InFlight # {} => loading

====
